---- MODULE Spec2Model ----
(***************************************************************************)
(* Model of the Google Drive catalog endpoint (package handler).          *)
(*                                                                         *)
(* Two variants of the same handler exist in the repository:              *)
(*   "extended" : src/api/index.go      (images, videos, metadata.docx)   *)
(*   "basic"    : src/unnamed/part_001  (images, metadata.txt only)       *)
(*                                                                         *)
(* Go strings whose characters the code inspects (file contents, metadata *)
(* keys and values, file names) are sequences of one-character strings.   *)
(* Opaque identifiers (file ids, MIME types, URLs) are TLA+ strings.      *)
(***************************************************************************)
EXTENDS Naturals, Sequences, FiniteSets, TLC

-----------------------------------------------------------------------------
(* Bounds of the model.                                                    *)

\* longest exhaustively enumerated metadata text (characters)
MaxLen == 5
\* most lines in a metadata text assembled from whole lines
MaxLines == 3
\* most child folders in the root listing
MaxFolders == 3
\* most files in the listing of the item folder of the file-listing runs
MaxFiles == 3

-----------------------------------------------------------------------------
(* strings: the Go standard-library functions the handler uses            *)

\* unicode.IsSpace restricted to the characters of the model
WhiteSpace == {" ", "\t", "\n", "\r", "\f"}

UpperLetters == <<"A","B","C","D","E","F","G","H","I","J","K","L","M",
                  "N","O","P","Q","R","S","T","U","V","W","X","Y","Z">>
LowerLetters == <<"a","b","c","d","e","f","g","h","i","j","k","l","m",
                  "n","o","p","q","r","s","t","u","v","w","x","y","z">>

LowerChar(c) ==
    IF \E i \in 1..26 : UpperLetters[i] = c
    THEN LowerLetters[CHOOSE i \in 1..26 : UpperLetters[i] = c]
    ELSE c

\* strings.ToLower
ToLower(s) == [i \in 1..Len(s) |-> LowerChar(s[i])]

RECURSIVE TrimLeft(_)
TrimLeft(s) ==
    IF s # <<>> /\ Head(s) \in WhiteSpace THEN TrimLeft(Tail(s)) ELSE s

RECURSIVE TrimRight(_)
TrimRight(s) ==
    IF s # <<>> /\ s[Len(s)] \in WhiteSpace
    THEN TrimRight(SubSeq(s, 1, Len(s) - 1))
    ELSE s

\* strings.TrimSpace
TrimSpace(s) == TrimRight(TrimLeft(s))

\* strings.Index for a one-character separator; 0 when absent
RECURSIVE IndexFrom(_, _, _)
IndexFrom(s, sep, i) ==
    IF i > Len(s) THEN 0
    ELSE IF s[i] = sep THEN i
    ELSE IndexFrom(s, sep, i + 1)

Index(s, sep) == IndexFrom(s, sep, 1)

\* strings.Split(s, sep) for a one-character separator: n separators give
\* n+1 pieces, the empty string gives one empty piece
RECURSIVE Split(_, _)
Split(s, sep) ==
    LET i == Index(s, sep)
    IN  IF i = 0 THEN <<s>>
        ELSE <<SubSeq(s, 1, i - 1)>> \o Split(SubSeq(s, i + 1, Len(s)), sep)

\* a plausible slip: strings.Split in place of strings.SplitN(.., 2)
SplitAll(s, sep) == Split(s, sep)

\* strings.SplitN(s, sep, 2): at most two pieces, cut at the first separator
SplitN2(s, sep) ==
    LET i == Index(s, sep)
    IN  IF i = 0 THEN <<s>>
        ELSE <<SubSeq(s, 1, i - 1), SubSeq(s, i + 1, Len(s))>>

\* strings.HasSuffix
HasSuffix(s, suffix) ==
    /\ Len(s) >= Len(suffix)
    /\ SubSeq(s, Len(s) - Len(suffix) + 1, Len(s)) = suffix

-----------------------------------------------------------------------------
(* parseMetadata                                                           *)

\* a Go map[string]string: a function on the set of keys present
EmptyMap == [k \in {} |-> <<>>]

MapSet(m, k, v) == [x \in (DOMAIN m) \cup {k} |-> IF x = k THEN v ELSE m[x]]

\* m[k] of a Go map: the zero value "" for an absent key
MapGet(m, k) == IF k \in DOMAIN m THEN m[k] ELSE <<>>

\* the body of the loop over the lines
ParseLine(metadata, rawLine) ==
    LET line == TrimSpace(rawLine)
    IN  IF line = <<>> THEN metadata
        ELSE LET parts == SplitN2(line, ":")
             IN  IF Len(parts) = 2
                 THEN MapSet(metadata,
                             ToLower(TrimSpace(parts[1])),
                             TrimSpace(parts[2]))
                 ELSE metadata

RECURSIVE ParseLines(_, _)
ParseLines(metadata, lines) ==
    IF lines = <<>> THEN metadata
    ELSE ParseLines(ParseLine(metadata, Head(lines)), Tail(lines))

parseMetadata(content) == ParseLines(EmptyMap, Split(content, "\n"))

-----------------------------------------------------------------------------
(* Go values: slices, the Item and Response records, their JSON encoding   *)

\* a Go slice: nil, or a (possibly empty) sequence of elements
NilSlice == [isNil |-> TRUE, elems |-> <<>>]
EmptySlice == [isNil |-> FALSE, elems |-> <<>>]
SliceAppend(s, x) == [isNil |-> FALSE, elems |-> Append(s.elems, x)]

KeyTitle == <<"t","i","t","l","e">>
KeySubtitle == <<"s","u","b","t","i","t","l","e">>
KeyDescription == <<"d","e","s","c","r","i","p","t","i","o","n">>
KeyCode == <<"c","o","d","e">>

NameMetadataTxt == <<"m","e","t","a","d","a","t","a",".","t","x","t">>
NameMetadataDocx == <<"m","e","t","a","d","a","t","a",".","d","o","c","x">>
SuffixDocx == <<".","d","o","c","x">>

\* Item{ImageURLs: []string{}, VideoURLs: []string{}}; the basic variant's
\* Item has no VideoURLs field
NewItem(v) ==
    IF v = "extended"
    THEN [title |-> <<>>, subtitle |-> <<>>, description |-> <<>>,
          code |-> <<>>, imageUrls |-> EmptySlice, videoUrls |-> EmptySlice]
    ELSE [title |-> <<>>, subtitle |-> <<>>, description |-> <<>>,
          code |-> <<>>, imageUrls |-> EmptySlice]

\* item.Title = metadata["title"] and the three assignments after it
SetMetadataFields(item, metadata) ==
    [item EXCEPT !.title = MapGet(metadata, KeyTitle),
                 !.subtitle = MapGet(metadata, KeySubtitle),
                 !.description = MapGet(metadata, KeyDescription),
                 !.code = MapGet(metadata, KeyCode)]

ImageTypes == {"image/jpeg", "image/jpg", "image/png", "image/gif",
               "image/webp", "image/bmp"}
VideoTypes == {"video/mp4", "video/mpeg", "video/quicktime",
               "video/x-msvideo", "video/x-ms-wmv", "video/webm",
               "video/ogg", "video/3gpp", "video/x-flv"}

isImage(mimeType) == mimeType \in ImageTypes
isVideo(mimeType) == mimeType \in VideoTypes

getImageURL(fileID) == "https://drive.google.com/uc?export=view&id=" \o fileID
getVideoURL(fileID) == "https://drive.google.com/file/d/" \o fileID \o "/preview"

\* file.Name == "metadata.txt" (|| file.Name == "metadata.docx", extended)
IsMetadataName(v, name) ==
    \/ name = NameMetadataTxt
    \/ v = "extended" /\ name = NameMetadataDocx

\* the state of the loop over fileList.Files
NewScan(v) == [item |-> NewItem(v), metadataFileID |-> "", metadataFileName |-> <<>>]

\* a plausible slip: the metadata branch without its continue
ScanFileNoContinue(v, scan, file) ==
    LET s1 == IF IsMetadataName(v, file.name)
              THEN [scan EXCEPT !.metadataFileID = file.id,
                                !.metadataFileName =
                                    IF v = "extended" THEN file.name ELSE <<>>]
              ELSE scan
        s2 == IF isImage(file.mimeType)
              THEN [s1 EXCEPT !.item.imageUrls =
                                 SliceAppend(@, getImageURL(file.id))]
              ELSE s1
    IN  IF v = "extended" /\ isVideo(file.mimeType)
        THEN [s2 EXCEPT !.item.videoUrls = SliceAppend(@, getVideoURL(file.id))]
        ELSE s2

\* a plausible slip: the first metadata-named file is kept
ScanFileFirstWins(v, scan, file) ==
    IF IsMetadataName(v, file.name)
    THEN IF scan.metadataFileID = ""
         THEN [scan EXCEPT !.metadataFileID = file.id,
                           !.metadataFileName =
                               IF v = "extended" THEN file.name ELSE <<>>]
         ELSE scan
    ELSE LET s2 == IF isImage(file.mimeType)
                   THEN [scan EXCEPT !.item.imageUrls =
                                        SliceAppend(@, getImageURL(file.id))]
                   ELSE scan
         IN  IF v = "extended" /\ isVideo(file.mimeType)
             THEN [s2 EXCEPT !.item.videoUrls =
                                SliceAppend(@, getVideoURL(file.id))]
             ELSE s2

\* one iteration of the loop over fileList.Files
ScanFile(v, scan, file) ==
    IF IsMetadataName(v, file.name)
    THEN [scan EXCEPT !.metadataFileID = file.id,
                      !.metadataFileName =
                          IF v = "extended" THEN file.name ELSE <<>>]
    ELSE LET s2 == IF isImage(file.mimeType)
                   THEN [scan EXCEPT !.item.imageUrls =
                                        SliceAppend(@, getImageURL(file.id))]
                   ELSE scan
         IN  IF v = "extended" /\ isVideo(file.mimeType)
             THEN [s2 EXCEPT !.item.videoUrls =
                                SliceAppend(@, getVideoURL(file.id))]
             ELSE s2

RECURSIVE ScanFiles(_, _, _)
ScanFiles(v, scan, files) ==
    IF files = <<>> THEN scan
    ELSE ScanFiles(v, ScanFile(v, scan, Head(files)), Tail(files))

\* json.Marshal of a []string or []Item: null for a nil slice
JsonArray(s) == [null |-> s.isNil, elems |-> s.elems]

\* json.NewEncoder(w).Encode(Response{Items: items, Error: err}): the
\* members of the object written; "error" carries omitempty, "items" not
EncodeResponse(items, err) ==
    [members |-> {"items"} \cup (IF err = "" THEN {} ELSE {"error"}),
     items |-> JsonArray(items),
     error |-> err]

-----------------------------------------------------------------------------
(* http.ResponseWriter                                                     *)

NewWriter == [wroteHeader |-> FALSE, status |-> 0, body |-> <<>>]

\* the first WriteHeader fixes the status, later ones are ignored
WriteHeader(w, code) ==
    IF w.wroteHeader THEN w
    ELSE [w EXCEPT !.wroteHeader = TRUE, !.status = code]

\* a Write before any WriteHeader sends status 200 first
Write(w, doc) ==
    LET w1 == WriteHeader(w, 200)
    IN  [w1 EXCEPT !.body = Append(@, doc)]

\* an error reply: api/index.go writes the header and then the body, the
\* basic variant writes the body and then the header
ErrorReply(v, w, code, err) ==
    IF v = "extended"
    THEN Write(WriteHeader(w, code), EncodeResponse(NilSlice, err))
    ELSE WriteHeader(Write(w, EncodeResponse(NilSlice, err)), code)

-----------------------------------------------------------------------------
(* The remote storage (Google Drive) and the local file system             *)

\* file contents: plain text, a .docx container holding paragraphs, or a
\* truncated file
TextBytes(t) == [kind |-> "text", text |-> t, paras |-> <<>>]
DocxBytes(ps) == [kind |-> "docx", text |-> <<>>, paras |-> ps]
PartialBytes == [kind |-> "partial", text |-> <<>>, paras |-> <<>>]

\* string(body)
StringOf(b) == IF b.kind = "text" THEN b.text
               ELSE IF b.kind = "docx" THEN <<"P","K">>
               ELSE <<>>

\* pandoc <file> -t plain: every paragraph on a line of its own, a blank
\* line between paragraphs (paragraphs of the model are shorter than the
\* wrap column)
RECURSIVE PlainText(_)
PlainText(ps) ==
    IF ps = <<>> THEN <<>>
    ELSE IF Len(ps) = 1 THEN Head(ps) \o <<"\n">>
    ELSE Head(ps) \o <<"\n", "\n">> \o PlainText(Tail(ps))

\* cmd.Output(): fails unless the file is a complete .docx container
Pandoc(b) == IF b.kind = "docx"
             THEN [ok |-> TRUE, out |-> PlainText(b.paras)]
             ELSE [ok |-> FALSE, out |-> <<>>]

TextA == <<"t","i","t","l","e",":"," ","A","\n","S","u","b","t","i","t","l","e"," ",":"," ","S",":","1","\n","\n","c","o","d","e",":","7">>
TextDocB == <<<<"T","i","t","l","e",":"," ","B">>, <<"d","e","s","c","r","i","p","t","i","o","n",":"," ","t","w","o"," ","w","o","r","d","s">>>>
TextX == <<<<"c","o","d","e",":"," ","X">>>>

NamePhoto == <<"p","h","o","t","o",".","p","n","g">>
NameClip == <<"c","l","i","p",".","m","p","4">>
NamePdf == <<"d","o","c",".","p","d","f">>

File(id, name, mimeType) == [id |-> id, name |-> name, mimeType |-> mimeType]

DocxMime == "application/vnd.openxmlformats-officedocument.wordprocessingml.document"

FilePhoto == File("i1", NamePhoto, "image/png")
FilePhoto2 == File("i2", NamePhoto, "image/jpeg")
FileClip == File("v1", NameClip, "video/mp4")
FilePdf == File("p1", NamePdf, "application/pdf")
FileTxt == File("t1", NameMetadataTxt, "text/plain")
FileTxtLost == File("t2", NameMetadataTxt, "text/plain")
FileDocx == File("d1", NameMetadataDocx, DocxMime)
FileDocxAsImage == File("x1", NameMetadataDocx, "image/jpeg")

\* srv.Files.Get(fileID).Download() followed by io.ReadAll
Download(fileID) ==
    CASE fileID = "t1" -> [ok |-> TRUE, body |-> TextBytes(TextA)]
      [] fileID = "d1" -> [ok |-> TRUE, body |-> DocxBytes(TextDocB)]
      [] fileID = "x1" -> [ok |-> TRUE, body |-> DocxBytes(TextX)]
      [] OTHER -> [ok |-> FALSE, body |-> PartialBytes]

RootID == "r1"
Listing(ok, files) == [ok |-> ok, files |-> files]
Folder(id) == [id |-> id, name |-> id]

\* the item folders of the request-level runs
FolderIds == {"fImg", "fDoc", "fBad", "fDl"}
FolderCatalog ==
    [f \in FolderIds |->
        CASE f = "fImg" -> Listing(TRUE, <<FilePhoto, FileTxt>>)
          [] f = "fDoc" -> Listing(TRUE, <<FileDocx, FileClip>>)
          [] f = "fBad" -> Listing(FALSE, <<>>)
          [] f = "fDl" -> Listing(TRUE, <<FilePhoto2, FileTxtLost>>)]

\* the files of the file-listing runs
FileUniverse == {FilePhoto, FileClip, FilePdf, FileTxt, FileDocx,
                 FileDocxAsImage}

\* the sequences without repetition of at most n elements of S
RECURSIVE DistinctSeqs(_, _)
DistinctSeqs(S, n) ==
    IF n = 0 THEN {<<>>}
    ELSE LET shorter == DistinctSeqs(S, n - 1)
         IN  shorter \cup
             {Append(q, x) : <<q, x>> \in
                 {y \in shorter \X S :
                     \A i \in 1..Len(y[1]) : y[1][i] # y[2]}}

tmpFile(fileID) == "/tmp/metadata_" \o fileID \o ".docx"

\* the file system without path
FsRemove(f, path) == [q \in (DOMAIN f) \ {path} |-> f[q]]
FsPut(f, path, b) == [q \in (DOMAIN f) \cup {path} |-> IF q = path THEN b ELSE f[q]]
EmptyFs == [q \in {} |-> PartialBytes]

-----------------------------------------------------------------------------
(* State                                                                   *)

VARIABLES
    variant,      \* which of the two handlers is deployed
    envFolderID,  \* os.Getenv("GOOGLE_DRIVE_FOLDER_ID")
    envCreds,     \* os.Getenv("GOOGLE_CREDENTIALS_JSON")
    drive,        \* the remote storage: root listing and per-folder listings
    fs,           \* the local file system under /tmp: path -> contents
    req,          \* per request: position in Handler and its local variables
    pf            \* input and result of a direct call of parseMetadata

vars == <<variant, envFolderID, envCreds, drive, fs, req, pf>>

\* the two requests the server handles, one after the other or overlapping
Reqs == {1, 2}

\* the requests a client sends: method and folderId query parameter
Arrival(method, query) == [method |-> method, query |-> query]
Arrivals == {Arrival("OPTIONS", ""), Arrival("POST", ""), Arrival("GET", ""),
             Arrival("GET", "r1"), Arrival("GET", "r2")}

NoConv == [ok |-> FALSE, out |-> <<>>]

NewRequest ==
    [pc |-> "idle", method |-> "", query |-> "", w |-> NewWriter,
     rootFolderID |-> "", folders |-> <<>>, idx |-> 0, items |-> NilSlice,
     scan |-> NewScan("basic"), body |-> PartialBytes, conv |-> NoConv,
     calls |-> <<>>, outcomes |-> <<>>, listed |-> FALSE, ioFailed |-> FALSE]

NoParse == [text |-> <<>>, done |-> FALSE, metadata |-> EmptyMap,
            item |-> NewItem("basic")]

\* srv.Files.List() of the child folders of a root
ListFolders(rootFolderID) ==
    IF rootFolderID = RootID THEN drive.root ELSE Listing(FALSE, <<>>)

\* srv.Files.List() of the files of an item folder
ListFiles(folderID) == drive.files[folderID]

Call(op, id) == [op |-> op, id |-> id]

-----------------------------------------------------------------------------
(* Handler, up to the call of getItems                                     *)

\* getEnv / os.Getenv fallback for the folder id
ResolveFolderID(query) == IF query = "" THEN envFolderID ELSE query

\* a plausible slip: the method check is missing
MethodAccepted(method) == FALSE

\* r.Method != "GET"
MethodRejected(method) == method # "GET"

\* drive.NewService: fails on credentials that are no service-account JSON
NewServiceFails(creds) == creds # "good"

HandlerEntry(r, method, query) ==
    LET r0 == [r EXCEPT !.method = method, !.query = query]
        rootFolderID == ResolveFolderID(query)
    IN  IF method = "OPTIONS"
        THEN [r0 EXCEPT !.w = WriteHeader(@, 200), !.pc = "done"]
        ELSE IF MethodRejected(method)
        THEN [r0 EXCEPT !.w = ErrorReply(variant, @, 405, "Method not allowed"),
                        !.pc = "done"]
        ELSE IF rootFolderID = ""
        THEN [r0 EXCEPT !.w = ErrorReply(variant, @, 400, "Folder ID is required"),
                        !.pc = "done"]
        ELSE IF envCreds = ""
        THEN [r0 EXCEPT !.w = ErrorReply(variant, @, 500,
                                         "Google credentials not configured"),
                        !.pc = "done"]
        ELSE IF NewServiceFails(envCreds)
        THEN [r0 EXCEPT !.w = ErrorReply(variant, @, 500,
                                "Unable to create Drive client: invalid credentials"),
                        !.pc = "done"]
        ELSE [r0 EXCEPT !.rootFolderID = rootFolderID, !.pc = "list"]

Handler(p) ==
    /\ req[p].pc = "idle"
    /\ \E a \in Arrivals :
          req' = [req EXCEPT ![p] = HandlerEntry(req[p], a.method, a.query)]
    /\ UNCHANGED <<variant, envFolderID, envCreds, drive, fs, pf>>

-----------------------------------------------------------------------------
(* getItems                                                                *)

\* the listing of the child folders; on failure Handler answers 500
GetItemsList(r) ==
    LET lst == ListFolders(r.rootFolderID)
        r1 == [r EXCEPT !.calls = Append(@, Call("listFolders", r.rootFolderID))]
    IN  IF ~lst.ok
        THEN [r1 EXCEPT !.w = ErrorReply(variant, @, 500,
                                  "error listing folders: googleapi: Error 404"),
                        !.pc = "done"]
        ELSE [r1 EXCEPT !.folders = lst.files, !.idx = 1, !.items = NilSlice,
                        !.listed = TRUE, !.pc = "loop"]

getItems(p) ==
    /\ req[p].pc = "list"
    /\ req' = [req EXCEPT ![p] = GetItemsList(req[p])]
    /\ UNCHANGED <<variant, envFolderID, envCreds, drive, fs, pf>>

Outcome(r, ok, item) == [folder |-> r.folders[r.idx].id, ok |-> ok, item |-> item]

\* processItemFolder returned (item, nil): items = append(items, item)
FolderDone(r, item) ==
    [r EXCEPT !.items = SliceAppend(@, item),
              !.outcomes = Append(@, Outcome(r, TRUE, item)),
              !.idx = @ + 1, !.pc = "loop"]

\* a plausible slip: the continue is missing and the item is appended anyway
FolderFailedAppends(r, item) == FolderDone(r, item)

\* processItemFolder returned (item, err): the error is printed and the loop
\* continues with the next folder
FolderFailed(r, item) ==
    [r EXCEPT !.outcomes = Append(@, Outcome(r, FALSE, item)),
              !.idx = @ + 1, !.pc = "loop"]

\* after the loop: Handler encodes Response{Items: items}
HandlerRespond(p) ==
    /\ req[p].pc = "loop"
    /\ req[p].idx > Len(req[p].folders)
    /\ req' = [req EXCEPT ![p].w = Write(@, EncodeResponse(req[p].items, "")),
                          ![p].pc = "done"]
    /\ UNCHANGED <<variant, envFolderID, envCreds, drive, fs, pf>>

-----------------------------------------------------------------------------
(* processItemFolder and readMetadata                                      *)

\* strings.HasSuffix(strings.ToLower(fileName), ".docx"); the basic
\* variant's readMetadata has no such branch
IsDocx(v, fileName) == v = "extended" /\ HasSuffix(ToLower(fileName), SuffixDocx)

\* processItemFolder from its start to the point where readMetadata either
\* has returned or is about to write the temporary file
FolderStart(r) ==
    LET folder == r.folders[r.idx]
        lst == ListFiles(folder.id)
        r1 == [r EXCEPT !.calls = Append(@, Call("listFiles", folder.id)),
                        !.scan = NewScan(variant)]
    IN  IF ~lst.ok THEN FolderFailed(r1, NewItem(variant))
        ELSE
          LET scan == ScanFiles(variant, NewScan(variant), lst.files)
              r2 == [r1 EXCEPT !.scan = scan]
          IN  IF scan.metadataFileID = "" THEN FolderDone(r2, scan.item)
              ELSE
                LET dl == Download(scan.metadataFileID)
                    r3 == [r2 EXCEPT !.calls =
                              Append(@, Call("download", scan.metadataFileID))]
                IN  IF ~dl.ok THEN FolderFailed(r3, scan.item)
                    ELSE IF IsDocx(variant, scan.metadataFileName)
                    THEN [r3 EXCEPT !.body = dl.body, !.pc = "write"]
                    ELSE FolderDone(r3,
                            SetMetadataFields(scan.item,
                                parseMetadata(StringOf(dl.body))))

processItemFolder(p) ==
    /\ req[p].pc = "loop"
    /\ req[p].idx <= Len(req[p].folders)
    /\ req' = [req EXCEPT ![p] = FolderStart(req[p])]
    /\ UNCHANGED <<variant, envFolderID, envCreds, drive, fs, pf>>

\* os.WriteFile(tmpFile, body, 0644): the file is written; or it cannot be
\* opened and nothing changes; or it is created or truncated and the write
\* fails part way. On failure readMetadata returns before the deferred
\* os.Remove is registered.
WriteOutcomes == {"written", "notOpened", "partial"}

WriteTmp(p) ==
    LET r == req[p]
        path == tmpFile(r.scan.metadataFileID)
        r1 == [r EXCEPT !.calls = Append(@, Call("convert", r.scan.metadataFileID))]
    IN  /\ r.pc = "write"
        /\ \E outcome \in WriteOutcomes :
              IF outcome = "written"
              THEN /\ fs' = FsPut(fs, path, r.body)
                   /\ req' = [req EXCEPT ![p] = [r1 EXCEPT !.pc = "pandoc"]]
              ELSE /\ fs' = IF outcome = "partial"
                            THEN FsPut(fs, path, PartialBytes)
                            ELSE fs
                   /\ req' = [req EXCEPT ![p] =
                                 FolderFailed([r1 EXCEPT !.ioFailed = TRUE],
                                              r.scan.item)]
        /\ UNCHANGED <<variant, envFolderID, envCreds, drive, pf>>

\* exec.Command("pandoc", tmpFile, "-t", "plain").Output()
RunPandoc(p) ==
    LET r == req[p]
        path == tmpFile(r.scan.metadataFileID)
    IN  /\ r.pc = "pandoc"
        /\ req' = [req EXCEPT ![p].conv =
                      IF path \in DOMAIN fs THEN Pandoc(fs[path]) ELSE NoConv,
                              ![p].pc = "remove"]
        /\ UNCHANGED <<variant, envFolderID, envCreds, drive, fs, pf>>

\* the deferred os.Remove(tmpFile), then the return of readMetadata and the
\* rest of processItemFolder
RemoveTmp(p) ==
    LET r == req[p]
        path == tmpFile(r.scan.metadataFileID)
    IN  /\ r.pc = "remove"
        /\ fs' = FsRemove(fs, path)
        /\ req' = [req EXCEPT ![p] =
                      IF r.conv.ok
                      THEN FolderDone(r, SetMetadataFields(r.scan.item,
                                             parseMetadata(r.conv.out)))
                      ELSE FolderFailed(r, r.scan.item)]
        /\ UNCHANGED <<variant, envFolderID, envCreds, drive, pf>>

-----------------------------------------------------------------------------
(* Specifications                                                          *)

Variants == {"basic", "extended"}

RootListings ==
    {Listing(FALSE, <<>>)} \cup
    {Listing(TRUE, [i \in 1..Len(q) |-> Folder(q[i])]) :
        q \in DistinctSeqs(FolderIds, MaxFolders)}

Init ==
    /\ variant \in Variants
    /\ envFolderID \in {"", RootID}
    /\ envCreds \in {"", "bad", "good"}
    /\ drive \in [root : RootListings, files : {FolderCatalog}]
    /\ fs = EmptyFs
    /\ req = [p \in Reqs |-> NewRequest]
    /\ pf = NoParse

Next ==
    \E p \in Reqs :
        \/ Handler(p)
        \/ getItems(p)
        \/ processItemFolder(p)
        \/ WriteTmp(p)
        \/ RunPandoc(p)
        \/ RemoveTmp(p)
        \/ HandlerRespond(p)

Spec == Init /\ [][Next]_vars

-----------------------------------------------------------------------------
(* File-listing runs: a root with one item folder whose listing ranges     *)
(* over the sequences of distinct files of FileUniverse                    *)

ItemFolderID == "fX"

InitFiles ==
    /\ variant \in Variants
    /\ envFolderID = RootID
    /\ envCreds = "good"
    /\ drive \in [root : {Listing(TRUE, <<Folder(ItemFolderID)>>)},
                  files : {[f \in {ItemFolderID} |-> Listing(TRUE, q)] :
                              q \in DistinctSeqs(FileUniverse, MaxFiles)}]
    /\ fs = EmptyFs
    /\ req = [p \in Reqs |-> NewRequest]
    /\ pf = NoParse

SpecFiles == InitFiles /\ [][Next]_vars

-----------------------------------------------------------------------------
(* Direct calls of parseMetadata on bounded texts                          *)

Alphabet == {"k", "K", ":", " ", "\n"}

\* every text of at most n characters of Alphabet
RECURSIVE TextsUpTo(_)
TextsUpTo(n) ==
    IF n = 0 THEN {<<>>}
    ELSE LET shorter == TextsUpTo(n - 1)
         IN  shorter \cup {Append(t, c) : <<t, c>> \in shorter \X Alphabet}

SampleLines == {
    <<"t","i","t","l","e",":"," ","A">>,
    <<"s","u","b","t","i","t","l","e",":"," ","B">>,
    <<"t","i","t","l","e",":"," ","C">>,
    <<"T","i","t","l","e"," ",":"," ","D">>,
    <<" ","c","o","d","e",":","7"," ">>,
    <<"d","e","s","c","r","i","p","t","i","o","n",":"," ","a",":","b">>,
    <<"t","i","t","l","e">>,
    <<>>,
    <<"c","o","d","e",":"," ","9","\r">>
    }

\* every text of at most n lines of SampleLines, joined by newlines
RECURSIVE LineTextsUpTo(_)
LineTextsUpTo(n) ==
    IF n = 1 THEN SampleLines
    ELSE LET shorter == LineTextsUpTo(n - 1)
         IN  shorter \cup
             {t \o <<"\n">> \o l : <<t, l>> \in shorter \X SampleLines}

ParseInputs == TextsUpTo(MaxLen) \cup LineTextsUpTo(MaxLines)

InitParse ==
    /\ variant \in Variants
    /\ envFolderID = RootID
    /\ envCreds = "good"
    /\ drive = [root |-> Listing(TRUE, <<>>), files |-> FolderCatalog]
    /\ fs = EmptyFs
    /\ req = [p \in Reqs |-> NewRequest]
    /\ pf \in [text : ParseInputs, done : {FALSE}, metadata : {EmptyMap},
               item : {NewItem(variant)}]

\* metadata := parseMetadata(content), then the four fields of the item
ParseCall ==
    /\ ~pf.done
    /\ pf' = LET metadata == parseMetadata(pf.text)
             IN  [pf EXCEPT !.done = TRUE,
                            !.metadata = metadata,
                            !.item = SetMetadataFields(NewItem(variant), metadata)]
    /\ UNCHANGED <<variant, envFolderID, envCreds, drive, fs, req>>

NextParse == ParseCall

SpecParse == InitParse /\ [][NextParse]_vars

-----------------------------------------------------------------------------
(* Properties                                                              *)

Done(p) == req[p].pc = "done"

\* the JSON document of a response that has one
HasDoc(p) == Len(req[p].w.body) = 1
Doc(p) == req[p].w.body[1]
HasError(p) == HasDoc(p) /\ "error" \in Doc(p).members

\* the records of the folders whose processing succeeded, in order
RECURSIVE OkItems(_)
OkItems(outcomes) ==
    IF outcomes = <<>> THEN <<>>
    ELSE IF Head(outcomes).ok
         THEN <<Head(outcomes).item>> \o OkItems(Tail(outcomes))
         ELSE OkItems(Tail(outcomes))

ReservedNames == IF variant = "extended"
                 THEN {NameMetadataTxt, NameMetadataDocx}
                 ELSE {NameMetadataTxt}

\* the positions of the metadata-named files of a listing
ReservedAt(files) == {i \in 1..Len(files) : files[i].name \in ReservedNames}

Last(S) == CHOOSE i \in S : \A j \in S : j <= i

\* C1: a GET request whose root listing succeeded answers 200 without an
\* error; every child folder of the listing was processed, in listing
\* order; the items returned are exactly the records of the folders whose
\* processing succeeded, in that order; a folder whose listing or metadata
\* download failed is never among them and a folder without metadata file
\* always is.
C1_FailedFoldersAreSkipped ==
    \A p \in Reqs :
        (Done(p) /\ req[p].listed) =>
            LET r == req[p]
            IN  /\ r.folders = ListFolders(r.rootFolderID).files
                /\ Len(r.outcomes) = Len(r.folders)
                /\ \A i \in 1..Len(r.folders) :
                      /\ r.outcomes[i].folder = r.folders[i].id
                      /\ ~ListFiles(r.folders[i].id).ok => ~r.outcomes[i].ok
                      /\ (/\ ListFiles(r.folders[i].id).ok
                          /\ ReservedAt(ListFiles(r.folders[i].id).files) = {})
                            => r.outcomes[i].ok
                      /\ (/\ ListFiles(r.folders[i].id).ok
                          /\ ReservedAt(ListFiles(r.folders[i].id).files) # {}
                          /\ ~Download(ListFiles(r.folders[i].id).files[
                                Last(ReservedAt(ListFiles(r.folders[i].id).files))].id).ok)
                            => ~r.outcomes[i].ok
                /\ r.w.status = 200
                /\ HasDoc(p)
                /\ ~HasError(p)
                /\ Doc(p).items.elems = OkItems(r.outcomes)

\* three child folders, the second fails: items of the first and the third
C1_Witness ==
    \E p \in Reqs :
        /\ Done(p)
        /\ Len(req[p].folders) = 3
        /\ req[p].outcomes[1].ok
        /\ ~req[p].outcomes[2].ok
        /\ req[p].outcomes[3].ok
        /\ Doc(p).items.elems = <<req[p].outcomes[1].item, req[p].outcomes[3].item>>
        /\ req[p].w.status = 200

\* C2: in every response, a body with an error goes with status 400, 405
\* or 500 and with absent or empty items, and a body without error goes
\* with status 200.
C2_ErrorImpliesErrorStatus ==
    \A p \in Reqs :
        Done(p) =>
            IF HasError(p)
            THEN /\ req[p].w.status \in {400, 405, 500}
                 /\ Doc(p).items.elems = <<>>
            ELSE req[p].w.status = 200

\* C3: GET without folderId and without GOOGLE_DRIVE_FOLDER_ID answers 400
\* with the body {"error":"Folder ID is required"} and nothing else.
C3_MissingFolderIdReply ==
    \A p \in Reqs :
        (Done(p) /\ req[p].method = "GET" /\ req[p].query = "" /\ envFolderID = "")
            => /\ req[p].w.status = 400
               /\ HasDoc(p)
               /\ Doc(p).members = {"error"}
               /\ Doc(p).error = "Folder ID is required"

\* C4: a request makes outbound calls only if it is a GET with a folder id
\* and credentials; its first call is the root listing, made once; calls
\* after it are made only if the root listing succeeded; a failed root
\* listing ends the request with an error and no further call.
C4_ChecksBeforeRemoteCalls ==
    \A p \in Reqs :
        LET r == req[p]
            c == r.calls
        IN  c # <<>> =>
              /\ r.method = "GET"
              /\ (IF r.query = "" THEN envFolderID ELSE r.query) # ""
              /\ envCreds # ""
              /\ c[1].op = "listFolders"
              /\ \A i \in 2..Len(c) :
                    /\ c[i].op # "listFolders"
                    /\ ListFolders(c[1].id).ok
              /\ (Done(p) /\ ~ListFolders(c[1].id).ok)
                    => (Len(c) = 1 /\ HasError(p))

\* a root listing failed and nothing was called after it, and another
\* request went on to list a folder after its root listing
C4_Witness ==
    /\ \E p \in Reqs :
          /\ Done(p)
          /\ Len(req[p].calls) = 1
          /\ ~ListFolders(req[p].calls[1].id).ok
    /\ \E p \in Reqs :
          /\ Len(req[p].calls) >= 2
          /\ req[p].calls[2].op = "listFiles"

\* C5: a root listing that yields no record answers 200 without error and
\* with items an empty array, not null.
C5_EmptyResultIsEmptyArray ==
    \A p \in Reqs :
        (Done(p) /\ req[p].listed /\ OkItems(req[p].outcomes) = <<>>)
            => /\ req[p].w.status = 200
               /\ ~HasError(p)
               /\ ~Doc(p).items.null
               /\ Doc(p).items.elems = <<>>

\* the files of a listing that are no metadata-named file and whose MIME
\* type is in types, in listing order
MediaFiles(files, types) ==
    SelectSeq(files, LAMBDA f : f.name \notin ReservedNames /\ f.mimeType \in types)

ImageUrlsOf(files) ==
    LET m == MediaFiles(files, ImageTypes)
    IN  [i \in 1..Len(m) |-> "https://drive.google.com/uc?export=view&id=" \o m[i].id]

VideoUrlsOf(files) ==
    LET m == MediaFiles(files, VideoTypes)
    IN  [i \in 1..Len(m) |-> "https://drive.google.com/file/d/" \o m[i].id \o "/preview"]

InSeq(x, q) == \E i \in 1..Len(q) : q[i] = x

\* C6: for every processed item folder whose listing succeeded, the item's
\* imageUrls are the view links of the image files that carry no metadata
\* name, in listing order, and (extended) its videoUrls the preview links
\* of such video files; the basic item has no videoUrls; no file yields
\* more than one URL and a metadata-named file yields none; without a
\* metadata file the four metadata fields are empty.
C6_FilesAreClassified ==
    \A p \in Reqs :
        \A i \in 1..Len(req[p].outcomes) :
            LET o == req[p].outcomes[i]
                lst == ListFiles(o.folder)
                files == lst.files
                videos == IF variant = "extended" THEN o.item.videoUrls.elems
                          ELSE <<>>
            IN  lst.ok =>
                  /\ o.item.imageUrls = [isNil |-> FALSE, elems |-> ImageUrlsOf(files)]
                  /\ IF variant = "extended"
                     THEN o.item.videoUrls =
                              [isNil |-> FALSE, elems |-> VideoUrlsOf(files)]
                     ELSE "videoUrls" \notin DOMAIN o.item
                  /\ \A k \in 1..Len(files) :
                        LET asImage == InSeq(getImageURL(files[k].id),
                                             o.item.imageUrls.elems)
                            asVideo == InSeq(getVideoURL(files[k].id), videos)
                        IN  /\ ~(asImage /\ asVideo)
                            /\ files[k].name \in ReservedNames
                                  => (~asImage /\ ~asVideo)
                  /\ ReservedAt(files) = {} =>
                        /\ o.ok
                        /\ o.item.title = <<>>
                        /\ o.item.subtitle = <<>>
                        /\ o.item.description = <<>>
                        /\ o.item.code = <<>>

\* the folder {image/png, video/mp4, application/pdf} of the example, in
\* the extended variant
C6_Witness ==
    \E p \in Reqs :
        /\ Done(p)
        /\ variant = "extended"
        /\ ListFiles(ItemFolderID).files = <<FilePhoto, FileClip, FilePdf>>
        /\ Len(req[p].outcomes) = 1
        /\ req[p].outcomes[1].item.imageUrls.elems =
              <<"https://drive.google.com/uc?export=view&id=i1">>
        /\ req[p].outcomes[1].item.videoUrls.elems =
              <<"https://drive.google.com/file/d/v1/preview">>
        /\ req[p].outcomes[1].item.title = <<>>

CallsOf(p, op) == SelectSeq(req[p].calls, LAMBDA c : c.op = op)

\* C8: for every processed item folder whose listing succeeded: without a
\* metadata-named file nothing is downloaded; otherwise exactly one
\* download is made, of the last metadata-named file in listing order, and
\* the document conversion is entered exactly when the download succeeded
\* and the name of that same file ends in .docx (extended variant), for
\* that file's id.
C8_LastMetadataFileWins ==
    \A p \in Reqs :
        (/\ Len(req[p].outcomes) = 1
         /\ Len(req[p].folders) = 1
         /\ ListFiles(req[p].folders[1].id).ok) =>
            LET files == ListFiles(req[p].folders[1].id).files
                R == ReservedAt(files)
                downloads == CallsOf(p, "download")
                converts == CallsOf(p, "convert")
            IN  IF R = {}
                THEN downloads = <<>> /\ converts = <<>>
                ELSE LET last == files[Last(R)]
                         docx == /\ variant = "extended"
                                 /\ Len(last.name) >= 5
                                 /\ SubSeq(last.name, Len(last.name) - 4,
                                           Len(last.name)) = <<".","d","o","c","x">>
                     IN  /\ downloads = <<Call("download", last.id)>>
                         /\ converts = IF docx /\ Download(last.id).ok
                                       THEN <<Call("convert", last.id)>>
                                       ELSE <<>>

\* two metadata-named files of different kinds, the text one last: it is
\* the one downloaded and no conversion is made
C8_Witness ==
    \E p \in Reqs :
        /\ Done(p)
        /\ variant = "extended"
        /\ ListFiles(ItemFolderID).files = <<FileDocx, FilePhoto, FileTxt>>
        /\ CallsOf(p, "download") = <<Call("download", "t1")>>
        /\ CallsOf(p, "convert") = <<>>
        /\ req[p].outcomes[1].item.title = <<"A">>

-----------------------------------------------------------------------------
(* parseMetadata, stated on the text                                       *)

\* the positions before which a line starts: 0 and every newline
LineBreaks(text) == {0} \cup {i \in 1..Len(text) : text[i] = "\n"}

\* the line that starts after position a
LineAt(text, a) ==
    LET ends == {b \in (a + 1)..(Len(text) + 1) :
                    b = Len(text) + 1 \/ text[b] = "\n"}
        b == CHOOSE x \in ends : \A y \in ends : x <= y
    IN  SubSeq(text, a + 1, b - 1)

Inked(s) == {i \in 1..Len(s) : s[i] \notin {" ", "\t", "\n", "\r", "\f"}}

\* s without its leading and trailing white space
Stripped(s) ==
    IF Inked(s) = {} THEN <<>>
    ELSE SubSeq(s, CHOOSE i \in Inked(s) : \A j \in Inked(s) : i <= j,
                   CHOOSE i \in Inked(s) : \A j \in Inked(s) : j <= i)

Colons(l) == {i \in 1..Len(l) : l[i] = ":"}
FirstColon(l) == CHOOSE i \in Colons(l) : \A j \in Colons(l) : i <= j

\* the lines that store an entry: not blank and with a colon
EntryLines(text) ==
    {a \in LineBreaks(text) :
        Inked(LineAt(text, a)) # {} /\ Colons(LineAt(text, a)) # {}}

KeyAt(text, a) ==
    LET l == LineAt(text, a)
    IN  ToLower(Stripped(SubSeq(l, 1, FirstColon(l) - 1)))

ValueAt(text, a) ==
    LET l == LineAt(text, a)
    IN  Stripped(SubSeq(l, FirstColon(l) + 1, Len(l)))

\* the value of the last line that stores key k, "" when there is none
FieldOf(text, k) ==
    LET S == {a \in EntryLines(text) : KeyAt(text, a) = k}
    IN  IF S = {} THEN <<>> ELSE ValueAt(text, Last(S))

\* C7: the mapping parseMetadata returns has exactly the keys of the lines
\* that are not blank and contain a colon, each key the lower-cased trimmed
\* text before the line's first colon, and maps each key to the trimmed
\* text after the first colon of the last line with that key; title,
\* subtitle, description and code of the item are the values of these four
\* keys, or empty.
C7_ParseMetadata ==
    pf.done =>
        /\ DOMAIN pf.metadata = {KeyAt(pf.text, a) : a \in EntryLines(pf.text)}
        /\ \A k \in DOMAIN pf.metadata : pf.metadata[k] = FieldOf(pf.text, k)
        /\ pf.item.title = FieldOf(pf.text, KeyTitle)
        /\ pf.item.subtitle = FieldOf(pf.text, KeySubtitle)
        /\ pf.item.description = FieldOf(pf.text, KeyDescription)
        /\ pf.item.code = FieldOf(pf.text, KeyCode)

\* "title: A\nsubtitle: B\ntitle: C" gives title -> "C", subtitle -> "B"
C7_Witness ==
    /\ pf.done
    /\ pf.text = <<"t","i","t","l","e",":"," ","A","\n","s","u","b","t","i","t","l","e",":"," ","B","\n","t","i","t","l","e",":"," ","C">>
    /\ pf.metadata[KeyTitle] = <<"C">>
    /\ pf.metadata[KeySubtitle] = <<"B">>
    /\ pf.item.title = <<"C">>

-----------------------------------------------------------------------------
(* The temporary file                                                      *)

\* C9: once every request has returned, no temporary file is left.
C9_NoTemporaryFileLeft ==
    (\A p \in Reqs : req[p].pc \in {"idle", "done"}) => fs = EmptyFs

\* processItemFolder of a request that runs alone
AloneFolder(folder) ==
    LET lst == ListFiles(folder.id)
        scan == ScanFiles(variant, NewScan(variant), lst.files)
        dl == Download(scan.metadataFileID)
        conv == Pandoc(dl.body)
    IN  IF ~lst.ok THEN [ok |-> FALSE, item |-> NewItem(variant)]
        ELSE IF scan.metadataFileID = "" THEN [ok |-> TRUE, item |-> scan.item]
        ELSE IF ~dl.ok THEN [ok |-> FALSE, item |-> scan.item]
        ELSE IF IsDocx(variant, scan.metadataFileName)
        THEN [ok |-> conv.ok,
              item |-> SetMetadataFields(scan.item, parseMetadata(conv.out))]
        ELSE [ok |-> TRUE,
              item |-> SetMetadataFields(scan.item,
                                         parseMetadata(StringOf(dl.body)))]

\* getItems of a request that runs alone
RECURSIVE AloneItems(_, _)
AloneItems(items, folders) ==
    IF folders = <<>> THEN items
    ELSE LET res == AloneFolder(Head(folders))
         IN  AloneItems(IF res.ok THEN SliceAppend(items, res.item) ELSE items,
                        Tail(folders))

\* C10: as long as no write of a temporary file fails, a request answers
\* what it answers when it runs alone, whatever the other request does
\* meanwhile.
C10_SameResponseAsAlone ==
    \A p \in Reqs :
        (Done(p) /\ req[p].listed /\ \A q \in Reqs : ~req[q].ioFailed) =>
            req[p].w = Write(NewWriter,
                             EncodeResponse(AloneItems(NilSlice, req[p].folders), ""))

\* the same, for a request that is the only one to have started
AloneSanity ==
    \A p \in Reqs :
        (/\ Done(p) /\ req[p].listed /\ ~req[p].ioFailed
         /\ \A q \in Reqs \ {p} : req[q].pc = "idle") =>
            req[p].w = Write(NewWriter,
                             EncodeResponse(AloneItems(NilSlice, req[p].folders), ""))

====
